---- MODULE Spec2Model ----
(***************************************************************************)
(* The bingo sheet engine of qrbingo: BingoSheet (generation with the      *)
(* length-constrained shuffle, hit, punch, the line scans) and the         *)
(* singleton snapshot it saves to.                                         *)
(*                                                                         *)
(* Rows and columns are numbered from 0 as in the source; a TLA+ sequence  *)
(* is indexed from 1, so slots[y][x] of the source is slots[y + 1][x + 1]. *)
(* A BingoSlot object is referred to by the grid cell that holds it,       *)
(* [row |-> y, col |-> x]; the position field of the object is kept        *)
(* separately, because punch and markSlotsIfBingo go through it.           *)
(***************************************************************************)
EXTENDS Integers, Sequences, FiniteSets, TLC

\* Bounds of the model.
MaxWidth == 3
MaxHeight == 3
MaxCatalog == 3
\* The most outcomes the random choices of one generation may have for the
\* sheet to be played on.
MaxOutcomes == 36
\* The most outcomes the random choices of one generation may have at all.
MaxGenOutcomes == 216
\* The most camera streams opened in one run of the scan view.
MaxStreams == 2

VARIABLES
    variations,   \* config.slot.variations, shuffled in place by arrayShuffle
    width,        \* config.sheet.width, then sheet.width
    height,       \* config.sheet.height, then sheet.height
    pc,           \* "config": init not called; "shuffle": in the while loop of
                  \* getShuffledListWithLength; "sheet": init has returned
    dest,         \* the accumulation list of getShuffledListWithLength
    slots,        \* sheet.slots, <<>> while there is no sheet
    stored,       \* the slots of the persisted 'singleton', <<>> while there is none
    op,           \* the last operation that returned
    arg,          \* its arguments
    ret,          \* its return value
    stream,       \* the stream state of VideoScanView: a stream, or 0 for undefined
    opened,       \* the number of camera streams getUserMedia has returned
    timers,       \* the streams whose VideoStream set an interval that is not cleared
    stops,        \* stops[s]: the calls of stop(s, ...) so far
    backed,       \* the streams stopped by a click on Back
    delivered     \* the calls of the punch prop so far, in order

sheetVars == <<variations, width, height, pc, dest, slots, stored, op, arg, ret>>
scanVars == <<stream, opened, timers, stops, backed, delivered>>
vars == <<sheetVars, scanVars>>

\* No sheet, no arguments.
None == <<>>

\* Return values: nothing, the sheet itself, undefined, a slot object, a
\* boolean, a list of slot objects.
Void == [void |-> TRUE]
ThisSheet == [sheet |-> TRUE]
NotFound == [undefined |-> TRUE]
SlotOf(ref) == [slot |-> ref]
BoolOf(b) == [bool |-> b]
ListOf(list) == [list |-> list]

----------------------------------------------------------------------------
\* Slots and grids

\* new BingoSlot({value, ..., position}): both flags start false.
BingoSlot(value, position) ==
    [value |-> value, position |-> position, punched |-> FALSE, bingo |-> FALSE]

Ref(r, c) == [row |-> r, col |-> c]

\* The slot object a reference points to: s[row][col] of the source.
At(s, ref) == s[ref.row + 1][ref.col + 1]

\* The cells of grid s.
CellsOf(s) == UNION {{Ref(r - 1, c - 1) : c \in DOMAIN s[r]} : r \in DOMAIN s}

Min(a, b) == IF a < b THEN a ELSE b

----------------------------------------------------------------------------
\* Generation

\* The variation catalogs: c distinct entries, named by their value.
Catalog(c) == [k \in 1..c |-> k]

\* One run of Math.random() per loop round of arrayShuffle: js[i] is the j
\* drawn in round i, an integer of 0..i.
RandomChoices(n) == {js \in [1..(n - 1) -> 0..(n - 1)] : \A i \in 1..(n - 1) : js[i] <= i}

\* Swap with the second assignment lost: arr[i] = arr[j] alone.
Swap_overwrite(arr, i, j) == [arr EXCEPT ![i + 1] = arr[j + 1]]

\* [arr[i], arr[j]] = [arr[j], arr[i]]
Swap(arr, i, j) == [arr EXCEPT ![i + 1] = arr[j + 1], ![j + 1] = arr[i + 1]]

RECURSIVE ShuffleFrom(_, _, _)
ShuffleFrom(arr, i, js) ==
    IF i > 0 THEN ShuffleFrom(Swap(arr, i, js[i]), i - 1, js) ELSE arr

\* for (let i = arr.length - 1; i > 0; i--) { j = random of 0..i; swap }
arrayShuffle(arr, js) == ShuffleFrom(arr, Len(arr) - 1, js)

\* createSlot that takes the column from the height: index % height.
createSlot_byHeight(variation, index, w) ==
    BingoSlot(variation, [x |-> index % height, y |-> index \div w])

\* createSlot: the slot of list index `index` on a grid `w` wide.
createSlot(variation, index, w) ==
    BingoSlot(variation, [x |-> index % w, y |-> index \div w])

\* The .map of init: each slot is pushed on the row its position names.
RECURSIVE PushSlots(_, _, _, _)
PushSlots(list, i, rows, w) ==
    IF i >= Len(list) THEN rows
    ELSE LET slot == createSlot(list[i + 1], i, w)
         IN  PushSlots(list, i + 1,
                       [rows EXCEPT ![slot.position.y + 1] = Append(@, slot)], w)

\* dest.slice(-length): the last `length` elements in the place of the first.
Slice_tail(list, length) ==
    SubSeq(list, Len(list) - Min(length, Len(list)) + 1, Len(list))

\* dest.slice(0, length)
Slice(list, length) == SubSeq(list, 1, Min(length, Len(list)))

\* The grid init builds from the list getShuffledListWithLength returns.
initSlots(list, w, h) == PushSlots(list, 0, [y \in 1..h |-> <<>>], w)

\* What the 'singleton' entry can hold before a generation: nothing, or the
\* sheet of an earlier game (here one of a single punched slot).
EarlierSnapshots ==
    {None, <<<<[BingoSlot(1, [x |-> 0, y |-> 0]) EXCEPT !.punched = TRUE]>>>>}

\* The rounds of the while loop for `length` slots from a catalog of c >= 1
\* entries.
Rounds(length, c) == (length + c - 1) \div c

\* The outcomes of the draws of one arrayShuffle of c entries: 2 * 3 * ... * c.
RECURSIVE ShuffleOutcomes(_)
ShuffleOutcomes(c) == IF c <= 1 THEN 1 ELSE c * ShuffleOutcomes(c - 1)

\* The outcomes of `rounds` shuffles of c entries, counted up to `cap`.
RECURSIVE Outcomes(_, _, _)
Outcomes(rounds, c, cap) ==
    IF rounds = 0 THEN 1
    ELSE LET rest == Outcomes(rounds - 1, c, cap)
         IN  IF rest > cap THEN rest ELSE rest * ShuffleOutcomes(c)

\* The configuration is within `cap` outcomes of the random choices.
WithinOutcomes(cap) ==
    \/ Len(variations) = 0
    \/ Outcomes(Rounds(width * height, Len(variations)), Len(variations), cap) <= cap

\* VideoScanView before any click: no stream, no interval, nothing stopped.
ScanIdle ==
    /\ stream = 0
    /\ opened = 0
    /\ timers = {}
    /\ stops = [s \in 1..MaxStreams |-> 0]
    /\ backed = {}
    /\ delivered = <<>>

\* A configuration: any dimensions and any catalog within the bounds.
GenInit ==
    /\ width \in 1..MaxWidth
    /\ height \in 1..MaxHeight
    /\ variations \in {Catalog(c) : c \in 0..MaxCatalog}
    /\ pc = "config"
    /\ dest = <<>>
    /\ slots = <<>>
    /\ stored \in EarlierSnapshots
    /\ op = "none"
    /\ arg = None
    /\ ret = Void
    /\ ScanIdle
    /\ WithinOutcomes(MaxGenOutcomes)

\* A configuration whose sheet is played on, in a store that holds no sheet.
Init ==
    /\ GenInit
    /\ stored = None
    /\ WithinOutcomes(MaxOutcomes)

\* init is called: it enters getShuffledListWithLength with an empty dest.
CallInit ==
    /\ pc = "config"
    /\ pc' = "shuffle"
    /\ dest' = <<>>
    /\ UNCHANGED <<scanVars, variations, width, height, slots, stored, op, arg, ret>>

\* One round of `while (dest.length < length) dest.push(...arrayShuffle(arr))`.
\* With an empty catalog the round pushes nothing: it leaves every variable
\* as it is and the loop condition true, so the loop runs for ever.
ShuffleRound ==
    /\ pc = "shuffle"
    /\ Len(dest) < width * height
    /\ \E js \in RandomChoices(Len(variations)) :
          /\ variations' = arrayShuffle(variations, js)
          /\ dest' = dest \o variations'
    /\ UNCHANGED <<scanVars, width, height, pc, slots, stored, op, arg, ret>>

\* init that saves the sheet it has constructed before returning it.
ReturnInit_save ==
    /\ pc = "shuffle"
    /\ ~(Len(dest) < width * height)
    /\ slots' = initSlots(Slice(dest, width * height), width, height)
    /\ stored' = slots'
    /\ pc' = "sheet"
    /\ op' = "init"
    /\ arg' = None
    /\ ret' = Void
    /\ dest' = <<>>
    /\ UNCHANGED <<scanVars, variations, width, height>>

\* The loop has ended: slice, create the slots, construct the sheet, return.
ReturnInit ==
    /\ pc = "shuffle"
    /\ ~(Len(dest) < width * height)
    /\ slots' = initSlots(Slice(dest, width * height), width, height)
    /\ pc' = "sheet"
    /\ op' = "init"
    /\ arg' = None
    /\ ret' = Void
    /\ dest' = <<>>
    /\ UNCHANGED <<scanVars, variations, width, height, stored>>

GenNext == CallInit \/ ShuffleRound \/ ReturnInit

----------------------------------------------------------------------------
\* The operations of a sheet. s is this.slots, w and h are this.width and
\* this.height.

\* this.slots.flat(): the slot objects in row-major order.
RECURSIVE FlatFrom(_, _)
FlatFrom(s, r) ==
    IF r >= Len(s) THEN <<>>
    ELSE [c \in 1..Len(s[r + 1]) |-> Ref(r, c - 1)] \o FlatFrom(s, r + 1)

flat(s) == FlatFrom(s, 0)

\* findLast in the place of find: the last element that satisfies the test.
RECURSIVE FindValue_last(_, _, _, _)
FindValue_last(s, list, i, value) ==
    IF i > Len(list) THEN NotFound
    ELSE LET later == FindValue_last(s, list, i + 1, value)
         IN  IF later # NotFound THEN later
             ELSE IF At(s, list[i]).value = value THEN SlotOf(list[i])
             ELSE NotFound

\* Array.prototype.find: the first element that satisfies the test.
RECURSIVE FindValue(_, _, _, _)
FindValue(s, list, i, value) ==
    IF i > Len(list) THEN NotFound
    ELSE IF At(s, list[i]).value = value THEN SlotOf(list[i])
    ELSE FindValue(s, list, i + 1, value)

\* hit(payload): a reference to the matching slot, or undefined.
hit(s, payload) == FindValue(s, flat(s), 1, payload.value)

\* The positions punch writes to: those of the slots whose value is hit.value.
PunchTargets(s, hitSlot) ==
    {At(s, ref).position : ref \in {q \in CellsOf(s) : At(s, q).value = hitSlot.value}}

\* punch that writes the flag of every slot: punched = (value === hit.value).
punch_rewrite(s, hitSlot) ==
    [r \in DOMAIN s |->
        [c \in DOMAIN s[r] |->
            [s[r][c] EXCEPT !.punched = (s[r][c].value = hitSlot.value)]]]

\* punch that also marks the grid cell at the position of the slot passed
\* in, whatever its value: this.slots[hit.position.y][hit.position.x].
punch_atHitPosition(s, hitSlot) ==
    LET targets == PunchTargets(s, hitSlot) \cup {hitSlot.position}
    IN  [r \in DOMAIN s |->
            [c \in DOMAIN s[r] |->
                IF [x |-> c - 1, y |-> r - 1] \in targets
                THEN [s[r][c] EXCEPT !.punched = TRUE]
                ELSE s[r][c]]]

\* punch that flips the flag of the matching slots: punched = !punched.
punch_toggle(s, hitSlot) ==
    [r \in DOMAIN s |->
        [c \in DOMAIN s[r] |->
            IF s[r][c].value = hitSlot.value
            THEN [s[r][c] EXCEPT !.punched = ~s[r][c].punched]
            ELSE s[r][c]]]

\* punch that marks the slot instance passed in and no other.
punch_onlyHit(s, hitSlot) ==
    [r \in DOMAIN s |->
        [c \in DOMAIN s[r] |->
            IF /\ [x |-> c - 1, y |-> r - 1] = hitSlot.position
               /\ s[r][c].value = hitSlot.value
            THEN [s[r][c] EXCEPT !.punched = TRUE]
            ELSE s[r][c]]]

\* punch(hit), before the save: this.slots[y][x].punched = true for the
\* position {x, y} of every slot with the value of hit.
punch(s, hitSlot) ==
    LET targets == PunchTargets(s, hitSlot)
    IN  [r \in DOMAIN s |->
            [c \in DOMAIN s[r] |->
                IF [x |-> c - 1, y |-> r - 1] \in targets
                THEN [s[r][c] EXCEPT !.punched = TRUE]
                ELSE s[r][c]]]

\* The row test with some in the place of every.
RowPunched_some(s, row) == \E c \in DOMAIN s[row + 1] : s[row + 1][c].punched

\* this.slots[row].every((slot) => slot.punched)
RowPunched(s, row) == \A c \in DOMAIN s[row + 1] : s[row + 1][c].punched

\* this.slots.every((row) => row[col].punched)
ColPunched(s, col) == \A r \in DOMAIN s : s[r][col + 1].punched

\* A row scan that keeps looking and returns the last fully punched row.
RECURSIVE ScanRows_last(_, _, _)
ScanRows_last(s, row, h) ==
    IF row >= h THEN <<>>
    ELSE LET later == ScanRows_last(s, row + 1, h)
         IN  IF later # <<>> THEN later
             ELSE IF RowPunched(s, row)
                  THEN [c \in 1..Len(s[row + 1]) |-> Ref(row, c - 1)]
                  ELSE <<>>

RECURSIVE ScanRows(_, _, _)
ScanRows(s, row, h) ==
    IF row >= h THEN <<>>
    ELSE IF RowPunched(s, row) THEN [c \in 1..Len(s[row + 1]) |-> Ref(row, c - 1)]
    ELSE ScanRows(s, row + 1, h)

\* getHorizontalBingo(): for (row = 0; row < this.height; row++) ...
getHorizontalBingo(s, h) == ScanRows(s, 0, h)

RECURSIVE ScanCols(_, _, _)
ScanCols(s, col, w) ==
    IF col >= w THEN <<>>
    ELSE IF ColPunched(s, col) THEN [r \in 1..Len(s) |-> Ref(r - 1, col)]
    ELSE ScanCols(s, col + 1, w)

\* getVerticalBingo(): for (col = 0; col < this.width; col++) ...
getVerticalBingo(s, w) == ScanCols(s, 0, w)

AllPunched(s, line) == \A i \in DOMAIN line : At(s, line[i]).punched

\* getDiagonalBingo with the second check hanging on the first as an else.
getDiagonalBingo_elseIf(s, w, h) ==
    IF w = h
    THEN LET len == Min(w, h)
             backslash == [i \in 1..Len(s) |-> Ref(i - 1, i - 1)]
             slash == [i \in 1..Len(s) |-> Ref(i - 1, len - (i - 1) - 1)]
         IN  IF AllPunched(s, backslash) THEN backslash
             ELSE IF AllPunched(s, slash) THEN slash ELSE <<>>
    ELSE <<>>

\* getDiagonalBingo without the width === height guard: the diagonals of the
\* top-left square of side min(width, height).
getDiagonalBingo_noGuard(s, w, h) ==
    LET len == Min(w, h)
        backslash == [i \in 1..len |-> Ref(i - 1, i - 1)]
        slash == [i \in 1..len |-> Ref(i - 1, len - (i - 1) - 1)]
    IN  (IF AllPunched(s, backslash) THEN backslash ELSE <<>>)
           \o (IF AllPunched(s, slash) THEN slash ELSE <<>>)

\* getDiagonalBingo()
getDiagonalBingo(s, w, h) ==
    IF w = h
    THEN LET len == Min(w, h)
             backslash == [i \in 1..Len(s) |-> Ref(i - 1, i - 1)]
             slash == [i \in 1..Len(s) |-> Ref(i - 1, len - (i - 1) - 1)]
         IN  (IF AllPunched(s, backslash) THEN backslash ELSE <<>>)
                \o (IF AllPunched(s, slash) THEN slash ELSE <<>>)
    ELSE <<>>

\* getBingo without its third concat.
getBingoList_noDiagonal(s, w, h) ==
    getHorizontalBingo(s, h) \o getVerticalBingo(s, w)

\* getBingo with the vertical line concatenated before the horizontal one.
getBingoList_verticalFirst(s, w, h) ==
    getVerticalBingo(s, w) \o getHorizontalBingo(s, h) \o getDiagonalBingo(s, w, h)

\* The three concats of getBingo.
getBingoList(s, w, h) ==
    getHorizontalBingo(s, h) \o getVerticalBingo(s, w) \o getDiagonalBingo(s, w, h)

\* markSlotsIfBingo with a comparison where the assignment is: no flag is set.
markSlotsIfBingo_compare(s, bingo) == s

\* markSlotsIfBingo that writes the flag of every slot: true on the list,
\* false off it.
markSlotsIfBingo_rewrite(s, bingo) ==
    LET marked == {At(s, bingo[i]).position : i \in DOMAIN bingo}
    IN  [r \in DOMAIN s |->
            [c \in DOMAIN s[r] |->
                [s[r][c] EXCEPT !.bingo = ([x |-> c - 1, y |-> r - 1] \in marked)]]]

\* markSlotsIfBingo(bingo): this.slots[slot.position.y][slot.position.x].bingo = true
markSlotsIfBingo(s, bingo) ==
    LET marked == {At(s, bingo[i]).position : i \in DOMAIN bingo}
    IN  [r \in DOMAIN s |->
            [c \in DOMAIN s[r] |->
                IF [x |-> c - 1, y |-> r - 1] \in marked
                THEN [s[r][c] EXCEPT !.bingo = TRUE]
                ELSE s[r][c]]]

\* Values a scanned payload or a stale slot can carry; 0 is in no catalog.
PayloadValues == 0..MaxCatalog

Payloads == {[value |-> v] : v \in PayloadValues}

\* The slot objects that are not on grid s (slots of an earlier sheet, say)
\* and carry a value that no slot of s has.
StaleSlots(s) ==
    {BingoSlot(v, [x |-> 0, y |-> 0]) :
        v \in PayloadValues \ {At(s, ref).value : ref \in CellsOf(s)}}

CallHit ==
    /\ pc = "sheet"
    /\ \E payload \in Payloads :
          /\ arg' = <<payload>>
          /\ ret' = hit(slots, payload)
    /\ op' = "hit"
    /\ UNCHANGED <<scanVars, variations, width, height, pc, dest, slots, stored>>

\* this.save(): what the 'singleton' entry holds afterwards. Every field of
\* every slot is written.
save(s) == s

\* punch that returns this without saving.
CallPunch_noSave ==
    /\ pc = "sheet"
    /\ \E hitSlot \in {At(slots, ref) : ref \in CellsOf(slots)} \cup StaleSlots(slots) :
          /\ arg' = <<hitSlot>>
          /\ slots' = punch(slots, hitSlot)
    /\ op' = "punch"
    /\ ret' = ThisSheet
    /\ UNCHANGED <<scanVars, variations, width, height, pc, dest, stored>>

\* punch(hit) and its save(): the singleton snapshot becomes the sheet.
CallPunch ==
    /\ pc = "sheet"
    /\ \E hitSlot \in {At(slots, ref) : ref \in CellsOf(slots)} \cup StaleSlots(slots) :
          /\ arg' = <<hitSlot>>
          /\ slots' = punch(slots, hitSlot)
    /\ stored' = save(slots')
    /\ op' = "punch"
    /\ ret' = ThisSheet
    /\ UNCHANGED <<scanVars, variations, width, height, pc, dest>>

CallGetBingo ==
    /\ pc = "sheet"
    /\ ret' = ListOf(getBingoList(slots, width, height))
    /\ slots' = markSlotsIfBingo(slots, ret'.list)
    /\ op' = "getBingo"
    /\ arg' = None
    /\ UNCHANGED <<scanVars, variations, width, height, pc, dest, stored>>

\* isBingo(): this.getBingo().length !== 0, flags marked on the way.
CallIsBingo ==
    /\ pc = "sheet"
    /\ LET bingo == getBingoList(slots, width, height)
       IN  /\ slots' = markSlotsIfBingo(slots, bingo)
           /\ ret' = BoolOf(Len(bingo) # 0)
    /\ op' = "isBingo"
    /\ arg' = None
    /\ UNCHANGED <<scanVars, variations, width, height, pc, dest, stored>>

CallGetHorizontalBingo ==
    /\ pc = "sheet"
    /\ ret' = ListOf(getHorizontalBingo(slots, height))
    /\ op' = "getHorizontalBingo"
    /\ arg' = None
    /\ UNCHANGED <<scanVars, variations, width, height, pc, dest, slots, stored>>

CallGetVerticalBingo ==
    /\ pc = "sheet"
    /\ ret' = ListOf(getVerticalBingo(slots, width))
    /\ op' = "getVerticalBingo"
    /\ arg' = None
    /\ UNCHANGED <<scanVars, variations, width, height, pc, dest, slots, stored>>

CallGetDiagonalBingo ==
    /\ pc = "sheet"
    /\ ret' = ListOf(getDiagonalBingo(slots, width, height))
    /\ op' = "getDiagonalBingo"
    /\ arg' = None
    /\ UNCHANGED <<scanVars, variations, width, height, pc, dest, slots, stored>>

Next ==
    \/ CallInit
    \/ ShuffleRound
    \/ ReturnInit
    \/ CallHit
    \/ CallPunch
    \/ CallGetBingo
    \/ CallIsBingo
    \/ CallGetHorizontalBingo
    \/ CallGetVerticalBingo
    \/ CallGetDiagonalBingo

Spec == Init /\ [][Next]_vars

\* The generation alone. init runs to completion once called, so a step of
\* it that is possible is eventually taken.
GenSpec == GenInit /\ [][GenNext]_vars /\ WF_vars(GenNext)

----------------------------------------------------------------------------
\* The scan view (VideoScanView.tsx). A stream is named by its number in
\* the order getUserMedia returned it. Every handler runs to completion.

\* What detect finds in a frame: nothing, a code whose data parses to a
\* QRCodeData, or a code whose data JSON.parse rejects.
NoCode == [code |-> "null"]
BadCode == [code |-> "malformed"]
CodeOf(data) == [code |-> "ok", data |-> data]
Detections == {NoCode, BadCode} \cup {CodeOf(data) : data \in Payloads}

\* stop(s, data?): setStream(undefined), the tracks of s stopped, the punch
\* prop called when there is data.
StopStream(s, punches) ==
    /\ stream' = 0
    /\ stops' = [stops EXCEPT ![s] = @ + 1]
    /\ delivered' = delivered \o punches

\* onClickStart, when getUserMedia has returned: setStream(stream). A
\* VideoStream that was not rendered is mounted and its effect sets the
\* interval; one that was rendered stays, its effect does not run again.
ClickStart ==
    /\ opened < MaxStreams
    /\ opened' = opened + 1
    /\ stream' = opened + 1
    /\ timers' = IF stream = 0 THEN timers \cup {opened + 1} ELSE timers
    /\ UNCHANGED <<sheetVars, stops, backed, delivered>>

\* A click on Back, there while a VideoStream is rendered: stop(stream).
\* The unmount that follows clears no interval: the effect returns no
\* cleanup.
ClickBack ==
    /\ stream # 0
    /\ StopStream(stream, <<>>)
    /\ backed' = backed \cup {stream}
    /\ UNCHANGED <<sheetVars, opened, timers>>

\* A tick of the interval the VideoStream of stream s set: detect, then the
\* callback. Without a code it returns; with one it clears the interval,
\* and onSuccess calls stop(s, data) unless JSON.parse has thrown.
Tick ==
    \E s \in timers : \E found \in Detections :
       /\ IF found = NoCode
          THEN UNCHANGED <<stream, timers, stops, delivered>>
          ELSE /\ timers' = timers \ {s}
               /\ IF found = BadCode
                  THEN UNCHANGED <<stream, stops, delivered>>
                  ELSE StopStream(s, <<[stream |-> s, data |-> found.data]>>)
       /\ UNCHANGED <<sheetVars, opened, backed>>

\* The scan view alone, over a store and a configuration that stay as they
\* are.
ScanInit ==
    /\ GenInit
    /\ width = 1
    /\ height = 1
    /\ variations = Catalog(1)
    /\ stored = None

ScanNext == ClickStart \/ ClickBack \/ Tick

ScanSpec == ScanInit /\ [][ScanNext]_vars

----------------------------------------------------------------------------
\* The grid as the claims describe it: height rows of width columns, and
\* its lines.

GridCells == {Ref(r, c) : r \in 0..(height - 1), c \in 0..(width - 1)}

RowLine(r) == [i \in 1..width |-> Ref(r, i - 1)]
ColLine(c) == [i \in 1..height |-> Ref(i - 1, c)]
MainDiagonal == [i \in 1..width |-> Ref(i - 1, i - 1)]
AntiDiagonal == [i \in 1..width |-> Ref(i - 1, width - i)]

\* Every slot of the line is punched on grid s.
Complete(s, line) == \A i \in DOMAIN line : At(s, line[i]).punched

CompleteRows(s) == {r \in 0..(height - 1) : Complete(s, RowLine(r))}
CompleteCols(s) == {c \in 0..(width - 1) : Complete(s, ColLine(c))}

Lowest(S) == CHOOSE m \in S : \A n \in S : m <= n

FirstRowLine(s) ==
    IF CompleteRows(s) = {} THEN <<>> ELSE RowLine(Lowest(CompleteRows(s)))
FirstColLine(s) ==
    IF CompleteCols(s) = {} THEN <<>> ELSE ColLine(Lowest(CompleteCols(s)))
SquareDiagonals(s) ==
    (IF Complete(s, MainDiagonal) THEN MainDiagonal ELSE <<>>)
       \o (IF Complete(s, AntiDiagonal) THEN AntiDiagonal ELSE <<>>)
DiagonalLines(s) == IF width = height THEN SquareDiagonals(s) ELSE <<>>

Members(line) == {line[i] : i \in DOMAIN line}

\* The slot lies on some fully punched row, column or (square grid) diagonal.
OnCompletedLine(s, ref) ==
    \/ ref.row \in CompleteRows(s)
    \/ ref.col \in CompleteCols(s)
    \/ /\ width = height
       /\ \/ ref \in Members(MainDiagonal) /\ Complete(s, MainDiagonal)
          \/ ref \in Members(AntiDiagonal) /\ Complete(s, AntiDiagonal)

HasCompletedLine(s) ==
    \/ CompleteRows(s) # {}
    \/ CompleteCols(s) # {}
    \/ width = height /\ (Complete(s, MainDiagonal) \/ Complete(s, AntiDiagonal))

SamePunched(ref) == At(slots', ref).punched = At(slots, ref).punched
SameBingo(ref) == At(slots', ref).bingo = At(slots, ref).bingo

----------------------------------------------------------------------------
\* C1: when punch(hit) returns, every slot whose value is hit.value is
\* punched, and the punched flag of every other slot is as it was.
C1_PunchAllMatches ==
    [][op' = "punch" =>
          \A ref \in GridCells :
             /\ At(slots, ref).value = arg'[1].value => At(slots', ref).punched
             /\ At(slots, ref).value # arg'[1].value => SamePunched(ref)]_vars

\* A punch of an unpunched slot on the grid whose value sits on a second
\* slot too, while a slot of another value stays unpunched.
C1_Witness ==
    /\ op = "punch"
    /\ ~arg[1].punched
    /\ \E a, b, c \in GridCells :
          /\ a # b
          /\ At(slots, a).value = arg[1].value /\ At(slots, a).position = arg[1].position
          /\ At(slots, b).value = arg[1].value
          /\ At(slots, a).punched /\ At(slots, b).punched
          /\ At(slots, c).value # arg[1].value /\ ~At(slots, c).punched

\* C2 as claimed: after getBingo() every slot on any completed line has
\* bingo = true.
C2_EveryCompletedLineMarked ==
    op = "getBingo" =>
       \A ref \in GridCells : OnCompletedLine(slots, ref) => At(slots, ref).bingo

\* C2 as amended: after getBingo() every slot of the lowest-index fully
\* punched row, of the lowest-index fully punched column and, on a square
\* grid, of a fully punched main or anti diagonal has bingo = true.
C2_FirstLinesMarked ==
    op = "getBingo" =>
       \A ref \in Members(FirstRowLine(slots)) \cup Members(FirstColLine(slots))
                    \cup Members(DiagonalLines(slots)) :
          At(slots, ref).bingo

\* getBingo() has marked a first row, and a slot of a later completed row
\* is left with bingo = false.
C2_Witness ==
    /\ op = "getBingo"
    /\ \E ref \in Members(FirstRowLine(slots)) : At(slots, ref).bingo
    /\ \E ref \in GridCells :
          /\ ref.row \in CompleteRows(slots)
          /\ ~At(slots, ref).bingo

\* C3: init with an empty catalog (and width * height >= 1) terminates,
\* with no sheet produced.
C3_EmptyCatalogFailsFast ==
    (pc = "shuffle" /\ Len(variations) = 0) ~> (pc # "shuffle" /\ slots = <<>>)

\* C4: both flags of every slot are false on the sheet init returns, and no
\* operation on the sheet turns a true flag false.
C4_FlagsMonotonic ==
    [][/\ op' = "init" =>
             \A ref \in GridCells :
                ~At(slots', ref).punched /\ ~At(slots', ref).bingo
       /\ pc = "sheet" =>
             \A ref \in GridCells :
                /\ At(slots, ref).punched => At(slots', ref).punched
                /\ At(slots, ref).bingo => At(slots', ref).bingo]_vars

\* A getBingo() that returns a row other than one marked before: a slot
\* keeps bingo = true though the call did not return it.
C4_Witness ==
    /\ op = "getBingo"
    /\ \E ref \in GridCells :
          /\ At(slots, ref).bingo /\ At(slots, ref).punched
          /\ ref \notin Members(ret.list)

\* C5: isBingo() is true exactly when some row, some column or, on a square
\* grid, a diagonal is fully punched; with nothing punched getBingo() is [].
C5_IsBingoIffLine ==
    /\ op = "isBingo" => (ret.bool <=> HasCompletedLine(slots))
    /\ (op = "getBingo" /\ \A ref \in GridCells : ~At(slots, ref).punched)
          => ret.list = <<>>

\* isBingo() has returned true where the only completed line is a diagonal.
C5_Witness ==
    /\ op = "isBingo"
    /\ ret.bool
    /\ CompleteRows(slots) = {}
    /\ CompleteCols(slots) = {}

\* C6: getBingo() returns the horizontal, the vertical and the diagonal
\* result concatenated in this order, duplicates kept; every returned slot
\* has bingo = true on return; no punched flag changes, and no bingo flag
\* of a slot that was not returned.
C6_GetBingoConcat ==
    [][op' = "getBingo" =>
          /\ ret'.list = FirstRowLine(slots) \o FirstColLine(slots) \o DiagonalLines(slots)
          /\ \A i \in DOMAIN ret'.list : At(slots', ret'.list[i]).bingo
          /\ \A ref \in GridCells :
                /\ SamePunched(ref)
                /\ ref \notin Members(ret'.list) => SameBingo(ref)]_vars

\* getBingo() has returned a row and a column that cross, the slot at the
\* crossing listed twice, and has left some slot unmarked.
C6_Witness ==
    /\ op = "getBingo"
    /\ Len(ret.list) = width + height
    /\ \E i, j \in DOMAIN ret.list : i < j /\ ret.list[i] = ret.list[j]
    /\ \E ref \in GridCells : ~At(slots, ref).bingo

\* C7: getHorizontalBingo() returns the lowest-index fully punched row (in
\* column order), getVerticalBingo() the lowest-index fully punched column
\* (in row order), [] when there is none; neither changes a flag.
C7_FirstMatchScans ==
    [][/\ op' = "getHorizontalBingo" =>
             ret'.list = FirstRowLine(slots) /\ slots' = slots
       /\ op' = "getVerticalBingo" =>
             ret'.list = FirstColLine(slots) /\ slots' = slots]_vars

\* getHorizontalBingo() has returned a row below row 0 while a later row is
\* fully punched too.
C7_Witness ==
    /\ op = "getHorizontalBingo"
    /\ ret.list # <<>>
    /\ ret.list[1].row > 0
    /\ \E r \in CompleteRows(slots) : r > ret.list[1].row

\* C8: on a square grid getDiagonalBingo() returns the main diagonal iff it
\* is fully punched, followed by the anti-diagonal iff it is fully punched.
C8_DiagonalsIndependent ==
    (op = "getDiagonalBingo" /\ width = height) => ret.list = SquareDiagonals(slots)

\* Both diagonals of a 3x3 grid returned, the centre slot twice, on a grid
\* that is not fully punched.
C8_Witness ==
    /\ op = "getDiagonalBingo"
    /\ width = 3 /\ height = 3
    /\ Len(ret.list) = 6
    /\ ret.list[2] = ret.list[5]
    /\ \E ref \in GridCells : ~At(slots, ref).punched

\* C9: on a grid with width # height getDiagonalBingo() returns [].
C9_NonSquareNoDiagonal ==
    (op = "getDiagonalBingo" /\ width # height) => ret.list = <<>>

\* getDiagonalBingo() has returned on a fully punched non-square grid.
C9_Witness ==
    /\ op = "getDiagonalBingo"
    /\ width # height
    /\ \A ref \in GridCells : At(slots, ref).punched

\* The slots of the grid that carry catalog entry v.
Placed(v) == {ref \in CellsOf(slots) : At(slots, ref).value = v}

\* C10: for a catalog of c >= 1 entries init produces exactly
\* L = width * height slots, each entry on at least floor(L / c) of them.
C10_Coverage ==
    (pc = "sheet" /\ Len(variations) >= 1) =>
       /\ Len(slots) = height
       /\ \A r \in DOMAIN slots : Len(slots[r]) = width
       /\ \A v \in 1..Len(variations) :
             Cardinality(Placed(v)) >= (width * height) \div Len(variations)

\* A sheet on which one entry sits on exactly floor(L / c) >= 1 slots and
\* another on more.
C10_Witness ==
    /\ pc = "sheet"
    /\ Len(variations) >= 2
    /\ \E v, u \in 1..Len(variations) :
          /\ Cardinality(Placed(v)) = (width * height) \div Len(variations)
          /\ Cardinality(Placed(v)) >= 1
          /\ Cardinality(Placed(u)) > Cardinality(Placed(v))

\* C11: a sheet has height rows of width slots, and the slot at row y,
\* column x has position (x, y), from init on and after every operation.
C11_ShapeAndPosition ==
    pc = "sheet" =>
       /\ Len(slots) = height
       /\ \A r \in DOMAIN slots : Len(slots[r]) = width
       /\ \A ref \in GridCells :
             At(slots, ref).position = [x |-> ref.col, y |-> ref.row]

\* A non-square sheet after a punch and a getBingo() that marked a line.
C11_Witness ==
    /\ op = "getBingo"
    /\ width # height
    /\ width > 1 /\ height > 1
    /\ \E ref \in GridCells : At(slots, ref).bingo
    /\ \E ref \in GridCells : ~At(slots, ref).punched

\* C12: a punch of value v right after a punch of v changes no punched
\* flag, no bingo flag and not the persisted snapshot.
C12_PunchIdempotent ==
    [][(op = "punch" /\ op' = "punch" /\ arg'[1].value = arg[1].value)
          => (slots' = slots /\ stored' = stored)]_vars

\* A punch with a slot of the grid that was punched already, on a sheet
\* where another slot is still unpunched.
C12_Witness ==
    /\ op = "punch"
    /\ arg[1].punched
    /\ \E ref \in GridCells : At(slots, ref) = arg[1]
    /\ \E ref \in GridCells : ~At(slots, ref).punched
    /\ stored = slots

\* The place of a cell in row-major order.
RowMajor(ref) == ref.row * width + ref.col

\* The cells of grid s whose slot has value v.
Matching(s, v) == {ref \in GridCells : At(s, ref).value = v}

\* C13: hit(payload) returns the first slot in row-major order whose value
\* is payload.value, or undefined when there is none, and changes neither a
\* flag nor the persisted snapshot.
C13_HitFirstRowMajor ==
    [][op' = "hit" =>
          /\ slots' = slots
          /\ stored' = stored
          /\ LET found == Matching(slots, arg'[1].value)
             IN  IF found = {} THEN ret' = NotFound
                 ELSE \E ref \in found :
                         /\ \A other \in found : RowMajor(ref) <= RowMajor(other)
                         /\ ret' = SlotOf(ref)]_vars

\* hit has returned a slot while a slot of the same value sits in a later
\* row and an earlier column.
C13_Witness ==
    /\ op = "hit"
    /\ ret # NotFound
    /\ \E other \in Matching(slots, arg[1].value) :
          other.row > ret.slot.row /\ other.col < ret.slot.col

\* C14: right after every punch the persisted snapshot has the punched and
\* bingo flags of the sheet in memory.
C14_PunchIsDurable ==
    op = "punch" =>
       /\ Len(stored) = height
       /\ \A ref \in GridCells :
             /\ At(stored, ref).punched = At(slots, ref).punched
             /\ At(stored, ref).bingo = At(slots, ref).bingo

\* A punch that has saved punched flags and a bingo flag an earlier
\* getBingo() had set in memory only.
C14_Witness ==
    /\ op = "punch"
    /\ \E ref \in GridCells : At(stored, ref).bingo
    /\ \E ref \in GridCells : At(stored, ref).punched /\ ~At(stored, ref).bingo
    /\ \E ref \in GridCells : ~At(stored, ref).punched

\* C15: a punch with a slot whose value no slot of the grid has changes no
\* punched flag and no bingo flag.
C15_StalePunchNoOp ==
    [][(op' = "punch" /\ Matching(slots, arg'[1].value) = {}) => slots' = slots]_vars

\* A punch with a stale slot has returned on a sheet with punched and
\* unpunched slots, the slot at the stale position unpunched.
C15_Witness ==
    /\ op = "punch"
    /\ Matching(slots, arg[1].value) = {}
    /\ \E ref \in GridCells : At(slots, ref).punched
    /\ ~At(slots, Ref(arg[1].position.y, arg[1].position.x)).punched

\* C16: no step of init changes the persisted snapshot.
C16_InitLeavesStore == [][stored' = stored]_vars

\* init has returned a sheet while the store still holds the sheet of an
\* earlier game.
C16_Witness ==
    /\ pc = "sheet"
    /\ op = "init"
    /\ stored # None
    /\ stored # slots

\* The values of the slots in row-major order.
Placement ==
    [i \in 1..(width * height) |->
        slots[((i - 1) \div width) + 1][((i - 1) % width) + 1].value]

\* The occurrences of entry v among the first n slots.
CountIn(n, v) == Cardinality({i \in 1..n : Placement[i] = v})

CeilDiv(a, b) == (a + b - 1) \div b

\* C17: the row-major sequence init places is made of full permutations of
\* the catalog, cut at L: in every prefix the counts of two entries differ
\* by at most 1, no entry is on more than ceil(L / c) slots, and with
\* c >= L no entry is repeated.
C17_BalancedPlacement ==
    (pc = "sheet" /\ Len(variations) >= 1) =>
       LET c == Len(variations)
           L == width * height
       IN  /\ \A i, j \in 1..L :
                (i < j /\ (i - 1) \div c = (j - 1) \div c)
                   => Placement[i] # Placement[j]
           /\ \A n \in 1..L : \A u, v \in 1..c :
                CountIn(n, u) - CountIn(n, v) <= 1
           /\ \A v \in 1..c : CountIn(L, v) <= CeilDiv(L, c)
           /\ c >= L => \A v \in 1..c : CountIn(L, v) <= 1

\* A sheet of more slots than entries, not a multiple of them: an entry
\* sits on ceil(L / c) slots, another on fewer.
C17_Witness ==
    /\ pc = "sheet"
    /\ Len(variations) = 3
    /\ width * height > 3
    /\ \E u, v \in 1..3 :
          /\ CountIn(width * height, u) = CeilDiv(width * height, 3)
          /\ CountIn(width * height, v) < CountIn(width * height, u)

\* C18: in every state of a sheet a slot with bingo = true has
\* punched = true.
C18_BingoImpliesPunched ==
    pc = "sheet" =>
       \A ref \in GridCells : At(slots, ref).bingo => At(slots, ref).punched

\* A sheet with a marked slot, a punched slot that is not marked and an
\* unpunched slot.
C18_Witness ==
    /\ pc = "sheet"
    /\ \E ref \in GridCells : At(slots, ref).bingo
    /\ \E ref \in GridCells : At(slots, ref).punched /\ ~At(slots, ref).bingo
    /\ \E ref \in GridCells : ~At(slots, ref).punched

\* C19: a win is stable. The slots an earlier getBingo() or isBingo() has
\* returned are those with bingo = true: each of them lies on a fully
\* punched line in every later state, and once there is one, isBingo()
\* returns true.
C19_WinIsStable ==
    pc = "sheet" =>
       /\ \A ref \in GridCells :
             At(slots, ref).bingo => OnCompletedLine(slots, ref)
       /\ (op = "isBingo" /\ \E ref \in GridCells : At(slots, ref).bingo)
             => ret.bool

\* A punch after the win: a line had been marked, a later punch has
\* punched a slot that is not marked, and a slot is still unpunched.
C19_Witness ==
    /\ op = "punch"
    /\ ~arg[1].punched
    /\ \E ref \in GridCells :
          /\ At(slots, ref).value = arg[1].value
          /\ ~At(slots, ref).bingo
    /\ \E ref \in GridCells : At(slots, ref).bingo
    /\ \E ref \in GridCells : ~At(slots, ref).punched

\* The calls of the punch prop made for stream s.
DeliveredFor(s) == {i \in DOMAIN delivered : delivered[i].stream = s}

\* C20: for every camera stream, stop runs at most once; once Back has
\* stopped the stream no punch is delivered for it; and no stream delivers
\* a second punch.
C20_StopAtMostOnce ==
    \A s \in 1..MaxStreams :
       /\ stops[s] <= 1
       /\ s \in backed => DeliveredFor(s) = {}
       /\ Cardinality(DeliveredFor(s)) <= 1

====
